---- MODULE Spec2Model ----
(***************************************************************************)
(* Model of lambda_function.py: an S3-triggered handler that fetches a     *)
(* text object, submits it to the RunPod inference API, polls the job      *)
(* status and stores the summary under a derived key.                      *)
(*                                                                         *)
(* Python strings that the code inspects character by character (the S3    *)
(* key) are sequences of one-character strings.  Opaque strings (file      *)
(* content, summaries, error details) are TLA+ strings.  JSON values are   *)
(* records tagged by a "kind" field.                                       *)
(***************************************************************************)
EXTENDS Integers, Sequences, FiniteSets, TLC

\* ------------------------------------------------------------------------
\* Program constants
\* ------------------------------------------------------------------------
POLL_INTERVAL == 5
MAX_POLLING_ATTEMPTS == 60

\* OUTPUT_PREFIX, the default "summaries/"
OUTPUT_PREFIX == <<"s", "u", "m", "m", "a", "r", "i", "e", "s", "/">>

\* the two literals of the rename at line 54
TXT == <<".", "t", "x", "t">>
SUMMARY_TXT == <<"_", "s", "u", "m", "m", "a", "r", "y", ".", "t", "x", "t">>

\* ------------------------------------------------------------------------
\* Bounds of the model
\* ------------------------------------------------------------------------
\* an event key is the concatenation of at most MaxKeyParts parts
MaxKeyParts == 2

\* the parts event keys are built from: a letter, a path separator, the
\* extension, a quoted space and a quoted separator
KeyParts == { <<"n">>, <<"/">>, TXT, <<"+">>, <<"%", "2", "F">> }

RECURSIVE Flatten(_)
Flatten(ps) == IF ps = <<>> THEN <<>> ELSE Head(ps) \o Flatten(Tail(ps))

PartSeqs == UNION { [1..n -> KeyParts] : n \in 0..MaxKeyParts }

\* the raw (URL-quoted) object keys an event may carry
Keys == { Flatten(ps) : ps \in PartSeqs }

\* file contents, job ids, summaries and error details are opaque
Contents == { "c1", "c2" }
Texts == { "t1", "t2" }

\* ------------------------------------------------------------------------
\* String functions used by lambda_handler
\* ------------------------------------------------------------------------
\* the hexadecimal digits that occur in the keys of the model
HexDigits == { "2", "F" }

\* the character of a decoded %xy escape: bytes.decode('utf-8', 'replace')
DecodeByte(h1, h2) ==
    IF h1 = "2" /\ h2 = "F" THEN "/"
    ELSE IF h1 = "2" /\ h2 = "2" THEN "\""
    ELSE "U+FFFD"

RECURSIVE unquote(_)
unquote(s) ==
    IF s = <<>> THEN <<>>
    ELSE IF /\ s[1] = "%"
            /\ Len(s) >= 3
            /\ s[2] \in HexDigits
            /\ s[3] \in HexDigits
         THEN <<DecodeByte(s[2], s[3])>> \o unquote(SubSeq(s, 4, Len(s)))
         ELSE <<s[1]>> \o unquote(Tail(s))

\* urllib.parse.unquote_plus: '+' becomes a space, then %xy escapes decode
unquote_plus(s) ==
    unquote([i \in 1..Len(s) |-> IF s[i] = "+" THEN " " ELSE s[i]])

\* os.path.basename (posix): what follows the last '/'
basename(p) ==
    LET slashes == { i \in 1..Len(p) : p[i] = "/" }
        last == IF slashes = {} THEN 0
                ELSE CHOOSE i \in slashes : \A j \in slashes : j <= i
    IN  SubSeq(p, last + 1, Len(p))

\* str.replace(old, new): every non-overlapping occurrence, left to right
RECURSIVE replace(_, _, _)
replace(s, old, new) ==
    IF Len(s) < Len(old) THEN s
    ELSE IF SubSeq(s, 1, Len(old)) = old
         THEN new \o replace(SubSeq(s, Len(old) + 1, Len(s)), old, new)
         ELSE <<s[1]>> \o replace(Tail(s), old, new)

\* output_key with the base name forgotten: the whole decoded key is renamed
output_key_keeps_path(key) == OUTPUT_PREFIX \o replace(key, TXT, SUMMARY_TXT)

\* line 54: the key the summary is stored under, from the decoded key
output_key(key) == OUTPUT_PREFIX \o replace(basename(key), TXT, SUMMARY_TXT)

\* ------------------------------------------------------------------------
\* JSON values of the inference API and Python values derived from them
\* ------------------------------------------------------------------------
JStr(s) == [kind |-> "str", val |-> s]
JNum == [kind |-> "num"]
JNull == [kind |-> "null"]
JDict(hasText, text) == [kind |-> "dict", hasText |-> hasText, text |-> text]
JList(items) == [kind |-> "list", items |-> items]

\* json.dumps(v): a Python string, the JSON text of v
json_dumps(v) == [kind |-> "str", dumps |-> v]

\* isinstance(v, str)
IsStr(v) == v.kind = "str"

\* values of a 'text' field: a string or, from a misbehaving worker, a number
TextVals == { JStr(t) : t \in Texts } \cup { JNum }

Dicts == { JDict(TRUE, v) : v \in TextVals } \cup { JDict(FALSE, JNull) }

Lists == { JList(<<>>),
           JList(<<JDict(TRUE, JStr("t1"))>>),
           JList(<<JDict(TRUE, JNum), JDict(TRUE, JStr("t2"))>>),
           JList(<<JDict(FALSE, JNull)>>),
           JList(<<JStr("t1")>>) }

\* the 'output' field of a status response
Outputs == { JStr(t) : t \in Texts } \cup Dicts \cup Lists

TerminalStatuses == { "COMPLETED", "FAILED", "CANCELLED" }

\* the 'status' field; "absent" is a response without one
Statuses == TerminalStatuses \cup { "IN_QUEUE", "IN_PROGRESS", "absent" }

ErrorDetails == { "boom" }

\* the JSON objects GET /status/{id} may answer with
StatusData ==
    { [status |-> "COMPLETED", hasOutput |-> TRUE, output |-> o,
       hasError |-> FALSE, error |-> ""] : o \in Outputs }
    \cup
    { [status |-> s, hasOutput |-> FALSE, output |-> JNull, hasError |-> FALSE,
       error |-> ""] : s \in Statuses }
    \cup
    { [status |-> s, hasOutput |-> FALSE, output |-> JNull, hasError |-> TRUE,
       error |-> e] : s \in Statuses \ { "COMPLETED" }, e \in ErrorDetails }

\* no status response received yet
NoResponse ==
    [status |-> "none", hasOutput |-> FALSE, output |-> JNull, hasError |-> FALSE,
     error |-> ""]

\* ------------------------------------------------------------------------
\* Exceptions: a type and the message str(e), a format with its arguments
\* ------------------------------------------------------------------------
Exc(type, fmt, args) == [type |-> type, fmt |-> fmt, args |-> args]

NoExc == Exc("none", "", <<>>)

\* ------------------------------------------------------------------------
\* poll_runpod_job: what one parsed status response leads to
\* ------------------------------------------------------------------------
Return(v) == [kind |-> "return", value |-> v, exc |-> NoExc]
Raise(e) == [kind |-> "raise", value |-> JNull, exc |-> e]
Continue == [kind |-> "continue", value |-> JNull, exc |-> NoExc]

\* lines 169-181: the summary of a COMPLETED response
completed_output(status_data) ==
    LET output == status_data.output IN
    IF status_data.hasOutput
    THEN IF IsStr(output)
         THEN Return(output)
         ELSE IF output.kind = "dict" /\ output.hasText
         THEN Return(output.text)
         ELSE IF output.kind = "list" /\ Len(output.items) > 0
         THEN LET first == output.items[1] IN
              IF first.kind = "dict"
              THEN Return(IF first.hasText THEN first.text ELSE json_dumps(output))
              ELSE Raise(Exc("AttributeError", "object has no attribute 'get'", <<>>))
         ELSE Return(json_dumps(output))
    ELSE Raise(Exc("ValueError", "No output found in completed job: {}",
                   <<status_data.status>>))

\* failed_status with the 'error' field never appended
failed_status_without_detail(status_data) ==
    Raise(Exc("ValueError", "RunPod job failed with status: {}",
              <<status_data.status>>))

\* lines 183-187: the error of a FAILED or CANCELLED response
failed_status(status_data) ==
    IF status_data.hasError
    THEN Raise(Exc("ValueError", "RunPod job failed with status: {}, error: {}",
                   <<status_data.status, status_data.error>>))
    ELSE Raise(Exc("ValueError", "RunPod job failed with status: {}",
                   <<status_data.status>>))

\* handle_status with CANCELLED missing from the list at line 183
handle_status_ignores_cancelled(status_data) ==
    IF status_data.status = "COMPLETED"
    THEN completed_output(status_data)
    ELSE IF status_data.status \in { "FAILED" }
    THEN failed_status(status_data)
    ELSE Continue

\* handle_status reading status_data["status"] instead of .get("status")
handle_status_requires_status(status_data) ==
    IF status_data.status = "absent"
    THEN Raise(Exc("KeyError", "'status'", <<>>))
    ELSE IF status_data.status = "COMPLETED"
    THEN completed_output(status_data)
    ELSE IF status_data.status \in { "FAILED", "CANCELLED" }
    THEN failed_status(status_data)
    ELSE Continue

\* lines 166-190: the body of one poll attempt after response.json()
handle_status(status_data) ==
    IF status_data.status = "COMPLETED"
    THEN completed_output(status_data)
    ELSE IF status_data.status \in { "FAILED", "CANCELLED" }
    THEN failed_status(status_data)
    ELSE Continue

\* ------------------------------------------------------------------------
\* State
\* ------------------------------------------------------------------------
VARIABLES
    RUNPOD_API_KEY,      \* module configuration, read once at load
    RUNPOD_ENDPOINT_URL,
    event,               \* the S3 notification of the invocation
    pc,                  \* where lambda_handler stands
    key,                 \* the decoded object key (line 31)
    text_data,           \* the file content (line 41)
    job_id,              \* run_response["id"] (line 51)
    attempt,             \* the loop variable of poll_runpod_job
    slept,               \* seconds spent in time.sleep by the poll loop
    retried,             \* a status request of this poll failed before
    final_response,      \* the status response with a terminal status, once received
    poll_result,         \* how poll_runpod_job ended
    output_key_v,        \* output_key (line 54)
    result,              \* what lambda_handler returned
    calls,               \* external calls issued by this invocation
    stored               \* keys written to the output bucket, all invocations

vars == << RUNPOD_API_KEY, RUNPOD_ENDPOINT_URL, event, pc, key, text_data,
           job_id, attempt, slept, retried, final_response, poll_result,
           output_key_v, result, calls, stored >>

config == << RUNPOD_API_KEY, RUNPOD_ENDPOINT_URL >>

\* os.environ.get: unset (None), set empty, or set
EnvValues == { "None", "", "set" }

\* Truthy testing 'is not None' only: an empty value passes
Truthy_none_only(v) == v # "None"

\* Python truthiness of a configuration value
Truthy(v) == v \notin { "None", "" }

NoResult == [statusCode |-> 0, error |-> NoExc, summary_location |-> <<>>]
NoPoll == [kind |-> "none", value |-> JNull, exc |-> NoExc]
NoCalls == [get |-> 0, post |-> 0, status |-> 0, put |-> 0]

\* lines 72-79: the top-level handler turns the exception into a result
Failure(e) == [statusCode |-> 500, error |-> e, summary_location |-> <<>>]

\* lines 64-70
Success(location) == [statusCode |-> 200, error |-> NoExc, summary_location |-> location]

Events == { [kind |-> "s3", key |-> k] : k \in Keys }
          \cup { [kind |-> "malformed", key |-> <<>>] }

Init ==
    /\ RUNPOD_API_KEY \in EnvValues
    /\ RUNPOD_ENDPOINT_URL \in EnvValues
    /\ event \in Events
    /\ pc = "idle"
    /\ key = <<>>
    /\ text_data = ""
    /\ job_id = ""
    /\ attempt = 0
    /\ slept = 0
    /\ retried = FALSE
    /\ final_response = NoResponse
    /\ poll_result = NoPoll
    /\ output_key_v = <<>>
    /\ result = NoResult
    /\ calls = NoCalls
    /\ stored = {}

\* the exception classes the code can raise that derive from Exception
ExceptionClasses ==
    { "KeyError", "ClientError", "UnicodeDecodeError", "ValueError",
      "RequestException", "AttributeError", "TimeoutError" }

\* Fail with the except clause narrowed to ValueError
Fail_only_value_errors(e) ==
    IF e.type = "ValueError"
    THEN /\ result' = Failure(e)
         /\ pc' = "done"
    ELSE /\ pc' = "crashed"
         /\ UNCHANGED result

\* lines 72-79: 'except Exception' turns the exception into the result;
\* anything else would leave the handler
Fail(e) ==
    IF e.type \in ExceptionClasses
    THEN /\ result' = Failure(e)
         /\ pc' = "done"
    ELSE /\ pc' = "crashed"
         /\ UNCHANGED result

\* lines 27-36: the event is parsed and the key URL-decoded
ParseEvent ==
    /\ pc = "idle"
    /\ IF event.kind = "s3"
       THEN /\ key' = unquote_plus(event.key)
            /\ pc' = "get_object"
            /\ UNCHANGED result
       ELSE /\ Fail(Exc("KeyError", "'Records'", <<>>))
            /\ UNCHANGED key
    /\ UNCHANGED << config, event, text_data, job_id, attempt, slept, retried,
                    final_response, poll_result, output_key_v, calls, stored >>

\* what get_object and the decoding of the body may raise
GetErrors == { Exc("ClientError", "NoSuchKey", <<>>),
               Exc("UnicodeDecodeError", "invalid start byte", <<>>) }

\* get_object_failed without the 'raise' of line 45: the error is only logged
get_object_error_swallowed(e) ==
    /\ pc' = "initiate"
    /\ UNCHANGED << text_data, result >>

\* lines 43-45: the error is logged and raised again
get_object_failed(e) ==
    /\ Fail(e)
    /\ UNCHANGED text_data

\* lines 38-45: the object is fetched and decoded, or the error re-raised
GetObject ==
    /\ pc = "get_object"
    /\ calls' = [calls EXCEPT !.get = @ + 1]
    /\ \/ \E c \in Contents :
             /\ text_data' = c
             /\ pc' = "initiate"
             /\ UNCHANGED result
       \/ \E e \in GetErrors : get_object_failed(e)
    /\ UNCHANGED << config, event, key, job_id, attempt, slept, retried,
                    final_response, poll_result, output_key_v, stored >>

\* what POST /run may come to: an id, a body without one, a request error
RunReplies == { "id", "no_id", "request_error" }

\* lines 48, 81-130: initiate_runpod_job
InitiateJob ==
    /\ pc = "initiate"
    /\ IF ~Truthy(RUNPOD_API_KEY) \/ ~Truthy(RUNPOD_ENDPOINT_URL)
       THEN /\ Fail(Exc("ValueError", "RunPod API key or endpoint URL not configured", <<>>))
            /\ UNCHANGED << calls, job_id >>
       ELSE /\ calls' = [calls EXCEPT !.post = @ + 1]
            /\ \E reply \in RunReplies :
                  CASE reply = "id" ->
                         /\ job_id' = "job-1"
                         /\ pc' = "poll_request"
                         /\ UNCHANGED result
                    [] reply = "no_id" ->
                         /\ Fail(Exc("ValueError", "RunPod API did not return a job ID: {}", <<>>))
                         /\ UNCHANGED job_id
                    [] reply = "request_error" ->
                         /\ Fail(Exc("RequestException", "POST /run failed", <<>>))
                         /\ UNCHANGED job_id
    /\ UNCHANGED << config, event, key, text_data, attempt, slept, retried,
                    final_response, poll_result, output_key_v, stored >>

\* lines 154-161: the next attempt of the loop sends its status request
PollRequest ==
    /\ pc = "poll_request"
    /\ attempt < MAX_POLLING_ATTEMPTS
    /\ calls' = [calls EXCEPT !.status = @ + 1]
    /\ pc' = "poll_response"
    /\ UNCHANGED << config, event, key, text_data, job_id, attempt, slept, retried,
                    final_response, poll_result, output_key_v, result, stored >>

\* the TimeoutError of line 198
TimedOut(id) ==
    Exc("TimeoutError", "Timed out waiting for RunPod job {} after {} polling attempts",
        <<id, "MAX_POLLING_ATTEMPTS">>)

\* PollTimeout with the loop one attempt short
PollTimeout_one_short ==
    /\ pc = "poll_request"
    /\ attempt >= MAX_POLLING_ATTEMPTS - 1
    /\ poll_result' = Raise(TimedOut(job_id))
    /\ Fail(TimedOut(job_id))
    /\ UNCHANGED << config, event, key, text_data, job_id, attempt, slept, retried,
                    final_response, output_key_v, calls, stored >>

\* line 198: the loop is exhausted
PollTimeout ==
    /\ pc = "poll_request"
    /\ attempt = MAX_POLLING_ATTEMPTS
    /\ poll_result' = Raise(TimedOut(job_id))
    /\ Fail(TimedOut(job_id))
    /\ UNCHANGED << config, event, key, text_data, job_id, attempt, slept, retried,
                    final_response, output_key_v, calls, stored >>

\* lines 189-190 and 194-195: sleep, then the next iteration
SleepAndContinue ==
    /\ slept' = slept + POLL_INTERVAL
    /\ attempt' = attempt + 1
    /\ pc' = "poll_request"

\* request_failed with the RequestException left to propagate
request_failed_aborts ==
    /\ retried' = TRUE
    /\ poll_result' = Raise(Exc("RequestException", "GET /status failed", <<>>))
    /\ Fail(Exc("RequestException", "GET /status failed", <<>>))
    /\ UNCHANGED << attempt, slept, final_response, output_key_v >>

\* lines 192-195: a RequestException of the status request is logged
request_failed ==
    /\ retried' = TRUE
    /\ SleepAndContinue
    /\ UNCHANGED << final_response, poll_result, output_key_v, result >>

\* lines 161-195: the status request fails, or its response is handled;
\* a returned summary takes lambda_handler to line 54
PollResponse ==
    /\ pc = "poll_response"
    /\ \/ request_failed
       \/ \E status_data \in StatusData :
             LET step == handle_status(status_data) IN
             /\ final_response' = IF status_data.status \in TerminalStatuses
                                  THEN status_data ELSE final_response
             /\ CASE step.kind = "continue" ->
                       /\ SleepAndContinue
                       /\ UNCHANGED << poll_result, output_key_v, result >>
                  [] step.kind = "raise" ->
                       /\ poll_result' = step
                       /\ Fail(step.exc)
                       /\ UNCHANGED << attempt, slept, output_key_v >>
                  [] step.kind = "return" ->
                       /\ poll_result' = step
                       /\ output_key_v' = output_key(key)
                       /\ pc' = "put_object"
                       /\ UNCHANGED << attempt, slept, result >>
             /\ UNCHANGED retried
    /\ UNCHANGED << config, event, key, text_data, job_id, calls, stored >>

\* lines 55-70: the summary is encoded and stored
PutObject ==
    /\ pc = "put_object"
    /\ IF ~IsStr(poll_result.value)
       THEN /\ Fail(Exc("AttributeError", "object has no attribute 'encode'", <<>>))
            /\ UNCHANGED << calls, stored >>
       ELSE /\ calls' = [calls EXCEPT !.put = @ + 1]
            /\ \/ /\ stored' = stored \cup { output_key_v }
                  /\ result' = Success(output_key_v)
                  /\ pc' = "done"
               \/ /\ Fail(Exc("ClientError", "AccessDenied", <<>>))
                  /\ UNCHANGED stored
    /\ UNCHANGED << config, event, key, text_data, job_id, attempt, slept, retried,
                    final_response, poll_result, output_key_v >>

\* the notification is delivered again: a new invocation, no state retained
Redeliver ==
    /\ pc = "done"
    /\ pc' = "idle"
    /\ key' = <<>>
    /\ text_data' = ""
    /\ job_id' = ""
    /\ attempt' = 0
    /\ slept' = 0
    /\ retried' = FALSE
    /\ final_response' = NoResponse
    /\ poll_result' = NoPoll
    /\ output_key_v' = <<>>
    /\ result' = NoResult
    /\ calls' = NoCalls
    /\ UNCHANGED << config, event, stored >>

Next ==
    \/ ParseEvent
    \/ GetObject
    \/ InitiateJob
    \/ PollRequest
    \/ PollTimeout
    \/ PollResponse
    \/ PutObject
    \/ Redeliver

Spec == Init /\ [][Next]_vars

\* ------------------------------------------------------------------------
\* Properties
\* ------------------------------------------------------------------------
Range(seq) == { seq[i] : i \in 1..Len(seq) }

Polling == pc \in { "poll_request", "poll_response" }

\* C1: a COMPLETED response whose output is a string, an object or a list
\* makes the poll return a string, never raise
C1_CompletedYieldsText ==
    ( /\ final_response.status = "COMPLETED"
      /\ final_response.hasOutput
      /\ final_response.output.kind \in { "str", "dict", "list" } )
    => /\ poll_result.kind = "return"
       /\ IsStr(poll_result.value)

\* C2: a FAILED or CANCELLED response ends the poll with an error whose
\* message holds the status and, when the response has one, the error detail;
\* the handler returns that error as its failure result and puts nothing
C2_FailureReported ==
    final_response.status \in { "FAILED", "CANCELLED" }
    => /\ poll_result.kind = "raise"
       /\ final_response.status \in Range(poll_result.exc.args)
       /\ final_response.hasError
             => final_response.error \in Range(poll_result.exc.args)
       /\ pc = "done"
       /\ result.statusCode = 500
       /\ result.error = poll_result.exc
       /\ calls.put = 0

C2_Witness ==
    /\ final_response.status = "CANCELLED"
    /\ final_response.hasError
    /\ retried
    /\ result.statusCode = 500

\* C3: without a terminal status the poll raises TimeoutError after exactly
\* MAX_POLLING_ATTEMPTS status requests, and never after fewer
C3_TimeoutAfterBudget ==
    /\ poll_result.exc.type = "TimeoutError"
          => /\ calls.status = MAX_POLLING_ATTEMPTS
             /\ final_response = NoResponse
             /\ result.error = poll_result.exc
    /\ (pc = "poll_request" /\ calls.status = MAX_POLLING_ATTEMPTS)
          => /\ ENABLED PollTimeout
             /\ ~ENABLED PollRequest
    /\ (pc = "poll_request" /\ calls.status < MAX_POLLING_ATTEMPTS)
          => ~ENABLED PollTimeout
    /\ (pc = "done" /\ calls.status > 0 /\ final_response = NoResponse)
          => /\ poll_result.exc.type = "TimeoutError"
             /\ calls.status = MAX_POLLING_ATTEMPTS

C3_Witness ==
    /\ poll_result.exc.type = "TimeoutError"
    /\ retried
    /\ result.statusCode = 500

\* the base names of a decoded key: the suffix after its last '/'
IsBaseName(b, d) ==
    \E i \in 0..Len(d) :
        /\ b = SubSeq(d, i + 1, Len(d))
        /\ \A j \in 1..Len(b) : b[j] # "/"
        /\ i > 0 => d[i] = "/"

\* b with "_summary" put before every ".txt"
Renamed(b) ==
    LET occ == { i \in 1..Len(b) : i + 3 <= Len(b) /\ SubSeq(b, i, i + 3) = TXT }
    IN  Flatten([ j \in 1..Len(b) |->
                    IF j \in occ
                    THEN SubSeq(SUMMARY_TXT, 1, Len(SUMMARY_TXT) - Len(TXT)) \o <<b[j]>>
                    ELSE <<b[j]>> ])

IsOutputKeyFor(out, raw) ==
    LET d == unquote_plus(raw) IN
    \E i \in 0..Len(d) :
        LET b == SubSeq(d, i + 1, Len(d)) IN
        /\ IsBaseName(b, d)
        /\ out = OUTPUT_PREFIX \o Renamed(b)

\* C4: the output key is OUTPUT_PREFIX and the renamed base name of the
\* decoded input key, the same in every invocation for that key, whatever
\* the content and the job result
C4_OutputKeyFromInputKey ==
    /\ (pc = "put_object" \/ calls.put > 0)
          => IsOutputKeyFor(output_key_v, event.key)
    /\ \A k \in stored : IsOutputKeyFor(k, event.key)
    /\ Cardinality(stored) <= 1
    /\ result.statusCode = 200 => result.summary_location \in stored

C4_Witness ==
    /\ event.key = <<"%", "2", "F", ".", "t", "x", "t">>
    /\ stored # {}
    /\ pc = "put_object"
    /\ text_data = "c2"
    /\ IsStr(poll_result.value)

\* C5: every error is caught and returned as a 500 result carrying it;
\* 200 is returned only after a successful put
C5_ErrorsBecomeResults ==
    /\ pc \in { "idle", "get_object", "initiate", "poll_request", "poll_response",
                "put_object", "done" }
    /\ pc = "done" => result.statusCode \in { 200, 500 }
    /\ pc # "done" => result = NoResult
    /\ result.statusCode = 500
          => /\ result.error.type \in ExceptionClasses
             /\ result.summary_location = <<>>
    /\ poll_result.kind = "raise" => result = Failure(poll_result.exc)
    /\ result.statusCode = 200
          => /\ calls.put = 1
             /\ output_key_v \in stored
             /\ result.error = NoExc

C5_Witness ==
    /\ result.statusCode = 500
    /\ result.error.type = "ClientError"
    /\ calls.put = 1

\* C6: a failed status request does not end the poll: it uses up one
\* attempt, is followed by the same POLL_INTERVAL sleep and, while attempts
\* remain, by the next request; a later COMPLETED response succeeds
C6_RequestErrorsRetried ==
    /\ slept = POLL_INTERVAL * attempt
    /\ pc = "poll_request" => calls.status = attempt
    /\ pc = "poll_response" => calls.status = attempt + 1
    /\ (retried /\ pc = "poll_request" /\ attempt < MAX_POLLING_ATTEMPTS)
          => ENABLED PollRequest
    /\ (retried /\ poll_result.kind = "raise")
          => \/ final_response # NoResponse
             \/ /\ poll_result.exc.type = "TimeoutError"
                /\ calls.status = MAX_POLLING_ATTEMPTS
    /\ ( /\ retried
         /\ final_response.status = "COMPLETED"
         /\ final_response.hasOutput
         /\ IsStr(final_response.output) )
          => poll_result = Return(final_response.output)
    /\ ( /\ retried
         /\ final_response.status = "COMPLETED"
         /\ final_response.hasOutput
         /\ final_response.output.kind = "dict"
         /\ final_response.output.hasText )
          => poll_result = Return(final_response.output.text)

C6_Witness ==
    /\ retried
    /\ final_response.status = "COMPLETED"
    /\ result.statusCode = 200
    /\ calls.status = 3

\* a configuration value that is missing or empty
Missing(v) == v = "None" \/ v = ""

NotConfigured == Missing(RUNPOD_API_KEY) \/ Missing(RUNPOD_ENDPOINT_URL)

IsConfigError(e) ==
    /\ e.type = "ValueError"
    /\ e.fmt = "RunPod API key or endpoint URL not configured"

\* C7 as stated: with a missing or empty API key or endpoint URL the
\* invocation ends with the configuration error, with no request to the
\* inference API and no put
C7_EndsWithConfigError ==
    (NotConfigured /\ pc = "done")
    => /\ IsConfigError(result.error)
       /\ calls.post = 0
       /\ calls.status = 0
       /\ calls.put = 0

\* C7, amended: with a missing or empty API key or endpoint URL no request
\* is sent to the inference API and nothing is put; the invocation ends with
\* a failure result, which is the configuration error whenever the storage
\* get succeeded
C7_NoRequestWithoutConfig ==
    NotConfigured
    => /\ calls.post = 0
       /\ calls.status = 0
       /\ calls.put = 0
       /\ stored = {}
       /\ pc \in { "idle", "get_object", "initiate", "done" }
       /\ pc = "done"
             => /\ result.statusCode = 500
                /\ text_data \in Contents => IsConfigError(result.error)

C7_Witness ==
    /\ RUNPOD_API_KEY = ""
    /\ RUNPOD_ENDPOINT_URL = "set"
    /\ pc = "done"
    /\ calls.get = 1
    /\ IsConfigError(result.error)

\* C8: get, POST /run, status polls and put are issued in this order, each
\* only after the one before succeeded, and get, POST and put at most once
C8_LinearPipeline ==
    [][ /\ calls'.get > calls.get
              => calls = NoCalls /\ pc = "get_object"
        /\ calls'.post > calls.post
              => /\ calls = [NoCalls EXCEPT !.get = 1]
                 /\ text_data \in Contents
        /\ calls'.status > calls.status
              => /\ calls.get = 1 /\ calls.post = 1 /\ calls.put = 0
                 /\ text_data \in Contents
                 /\ job_id # ""
                 /\ final_response = NoResponse
        /\ calls'.put > calls.put
              => /\ calls.get = 1 /\ calls.post = 1 /\ calls.put = 0
                 /\ calls.status >= 1
                 /\ poll_result.kind = "return"
                 /\ final_response.status = "COMPLETED"
      ]_vars

C8_Witness ==
    /\ calls.get = 1
    /\ calls.post = 1
    /\ calls.status = 2
    /\ calls.put = 1
    /\ result.statusCode = 200

\* what is left of the poll loop: twice the attempts left, less the request
\* in flight
Measure ==
    2 * (MAX_POLLING_ATTEMPTS - attempt) - (IF pc = "poll_response" THEN 1 ELSE 0)

\* C9: the poll issues at most MAX_POLLING_ATTEMPTS status requests, one at
\* a time, none after a terminal status, and every step of the loop brings
\* it nearer its end
C9_PollTerminates ==
    /\ [](/\ calls.status <= MAX_POLLING_ATTEMPTS
          /\ Polling => /\ Measure >= 0
                        /\ final_response = NoResponse
                        /\ calls.status = attempt + (IF pc = "poll_response" THEN 1 ELSE 0))
    /\ [][ /\ Polling => (~Polling' \/ Measure' < Measure)
           /\ final_response # NoResponse => calls'.status <= calls.status
         ]_vars

C9_Witness ==
    /\ calls.status = MAX_POLLING_ATTEMPTS
    /\ final_response.status = "FAILED"
    /\ pc = "done"

\* the ways poll_runpod_job ends
PollSucceeded ==
    /\ poll_result.kind = "return"
    /\ final_response.status = "COMPLETED"

PollFailedStatus ==
    /\ poll_result.kind = "raise"
    /\ poll_result.exc.type = "ValueError"
    /\ final_response.status \in { "FAILED", "CANCELLED" }
    /\ final_response.status \in Range(poll_result.exc.args)

PollTimedOut ==
    /\ poll_result.kind = "raise"
    /\ poll_result.exc.type = "TimeoutError"
    /\ final_response = NoResponse
    /\ calls.status = MAX_POLLING_ATTEMPTS

PollBadCompleted ==
    /\ poll_result.kind = "raise"
    /\ final_response.status = "COMPLETED"
    /\ \/ /\ ~final_response.hasOutput
          /\ poll_result.exc.type = "ValueError"
       \/ /\ final_response.hasOutput
          /\ final_response.output.kind = "list"
          /\ Len(final_response.output.items) > 0
          /\ final_response.output.items[1].kind # "dict"
          /\ poll_result.exc.type = "AttributeError"

Count(b) == IF b THEN 1 ELSE 0

PollEnded == poll_result.kind # "none"

====
